---- MODULE Spec2Model ----
(***************************************************************************)
(* Recyclr: the receipt pipeline of PlasticTracker (src/src/plastic_tracker *)
(* .py), its line filter (also src/src/logic.py and src/logic.py) and the  *)
(* tracker's stored item list and storage file.                            *)
(*                                                                         *)
(* Text is modelled as TLA+ strings; a character is a string of length 1.  *)
(* Carbon footprints are in tenths of a gram (82.8 g is 828).              *)
(***************************************************************************)
EXTENDS Integers, Sequences, FiniteSets, TLC

(***************************************************************************)
(* Bounds of the model.                                                    *)
(***************************************************************************)
\* the number of fragments an OCR text of the filter specification is built of
MaxFrags == 3
\* the number of receipt invocations started in one behaviour
MaxReceipts == 2
\* the last second of the clock
MaxClock == 1
\* the number of clock seconds in a calendar day
TicksPerDay == 1

(***************************************************************************)
(* Characters and the str methods the code uses.                           *)
(***************************************************************************)
Char(s, i) == SubSeq(s, i, i)

LowerCase == "abcdefghijklmnopqrstuvwxyz"
UpperCase == "ABCDEFGHIJKLMNOPQRSTUVWXYZ"
Digits == "0123456789"

\* the characters of a string, as a set
CharsOf(s) == {Char(s, i) : i \in 1..Len(s)}

DigitChars == CharsOf(Digits)
AlphaChars == CharsOf(LowerCase) \cup CharsOf(UpperCase)

\* str.isdigit / str.isalpha of one character
isdigit(c) == c \in DigitChars
isalpha(c) == c \in AlphaChars

\* the characters str.strip() removes, and those str.splitlines() breaks at
Whitespace == {" ", "\t", "\n", "\r", "\f"}
LineBreaks == {"\n", "\r", "\f"}

\* the upper case letter of each lower case letter
UpperOf == [c \in CharsOf(LowerCase) |->
              Char(UpperCase, CHOOSE i \in 1..Len(LowerCase) : Char(LowerCase, i) = c)]

\* str.upper of one character
upper_char(c) == IF c \in DOMAIN UpperOf THEN UpperOf[c] ELSE c

RECURSIVE upper(_)
upper(s) == IF s = "" THEN "" ELSE upper_char(Char(s, 1)) \o upper(SubSeq(s, 2, Len(s)))

RECURSIVE lstrip(_)
lstrip(s) ==
  IF s # "" /\ Char(s, 1) \in Whitespace THEN lstrip(SubSeq(s, 2, Len(s))) ELSE s

RECURSIVE rstrip(_)
rstrip(s) ==
  IF s # "" /\ Char(s, Len(s)) \in Whitespace THEN rstrip(SubSeq(s, 1, Len(s) - 1)) ELSE s

strip(s) == rstrip(lstrip(s))

\* list.append
list_append_front(list, x) == <<x>> \o list

list_append(list, x) == Append(list, x)

\* keyword in line
In(keyword, line) ==
  \E i \in 0..(Len(line) - Len(keyword)) : SubSeq(line, i + 1, i + Len(keyword)) = keyword

\* str.splitlines(): "\r\n" is one break, and a final break opens no empty line
RECURSIVE splitlines(_)
splitlines(s) ==
  IF s = "" THEN <<>>
  ELSE IF \A i \in 1..Len(s) : Char(s, i) \notin LineBreaks THEN <<s>>
  ELSE LET b == CHOOSE i \in 1..Len(s) :
                  /\ Char(s, i) \in LineBreaks
                  /\ \A j \in 1..(i - 1) : Char(s, j) \notin LineBreaks
           w == IF Char(s, b) = "\r" /\ b < Len(s) /\ Char(s, b + 1) = "\n" THEN 2 ELSE 1
       IN  <<SubSeq(s, 1, b - 1)>> \o splitlines(SubSeq(s, b + w, Len(s)))

\* "\n".join(lines)
RECURSIVE join(_)
join(ls) ==
  IF ls = <<>> THEN ""
  ELSE IF Len(ls) = 1 THEN ls[1]
  ELSE ls[1] \o "\n" \o join(Tail(ls))

(***************************************************************************)
(* The line filter.                                                        *)
(***************************************************************************)
\* the exclusion list without the two keywords of the totals
excluded_keywords_items ==
  << "TAX", "CHANGE", "PAY", "PURCHASE",
     "ITEMS SOLD", "DEBIT", "EFT", "REF", "AID", "NETWORK",
     "TERMINAL", "ID", "LOW PRICES", "GIVE US FEEDBACK",
     "WALMART", "MGR:", "ELIZABETH", "STR", "TR#", "THANK",
     "DATE", "TIME", "APPROVAL", "ACCOUNT", "CASHIER" >>

\* excluded_keywords of get_items_from_text
excluded_keywords ==
  << "SUBTOTAL", "TOTAL", "TAX", "CHANGE", "PAY", "PURCHASE",
     "ITEMS SOLD", "DEBIT", "EFT", "REF", "AID", "NETWORK",
     "TERMINAL", "ID", "LOW PRICES", "GIVE US FEEDBACK",
     "WALMART", "MGR:", "ELIZABETH", "STR", "TR#", "THANK",
     "DATE", "TIME", "APPROVAL", "ACCOUNT", "CASHIER" >>

\* filter_line without the test for a letter
filter_line_digit(items, line) ==
  LET clean_line == upper(strip(line))
  IN  IF \E k \in 1..Len(excluded_keywords) : In(excluded_keywords[k], clean_line)
      THEN items
      ELSE IF clean_line = ""
      THEN items
      ELSE IF \E i \in 1..Len(clean_line) : isdigit(Char(clean_line, i))
      THEN list_append(items, clean_line)
      ELSE items

\* filter_line with "or" for "and" in the digit-and-letter test
filter_line_or(items, line) ==
  LET clean_line == upper(strip(line))
  IN  IF \E k \in 1..Len(excluded_keywords) : In(excluded_keywords[k], clean_line)
      THEN items
      ELSE IF clean_line = ""
      THEN items
      ELSE IF \/ \E i \in 1..Len(clean_line) : isdigit(Char(clean_line, i))
              \/ \E i \in 1..Len(clean_line) : isalpha(Char(clean_line, i))
      THEN list_append(items, clean_line)
      ELSE items

\* filter_line with a line kept only once
filter_line_once(items, line) ==
  LET clean_line == upper(strip(line))
  IN  IF \E k \in 1..Len(excluded_keywords) : In(excluded_keywords[k], clean_line)
      THEN items
      ELSE IF clean_line = ""
      THEN items
      ELSE IF /\ \E i \in 1..Len(clean_line) : isdigit(Char(clean_line, i))
              /\ \E i \in 1..Len(clean_line) : isalpha(Char(clean_line, i))
              /\ \A j \in 1..Len(items) : items[j] # clean_line
      THEN list_append(items, clean_line)
      ELSE items

\* filter_line with the exclusion keywords looked up in the line as read
filter_line_raw(items, line) ==
  LET clean_line == upper(strip(line))
  IN  IF \E k \in 1..Len(excluded_keywords) : In(excluded_keywords[k], line)
      THEN items
      ELSE IF clean_line = ""
      THEN items
      ELSE IF /\ \E i \in 1..Len(clean_line) : isdigit(Char(clean_line, i))
              /\ \E i \in 1..Len(clean_line) : isalpha(Char(clean_line, i))
      THEN list_append(items, clean_line)
      ELSE items

\* one pass of the loop body: the items list after the line
filter_line(items, line) ==
  LET clean_line == upper(strip(line))
  IN  IF \E k \in 1..Len(excluded_keywords) : In(excluded_keywords[k], clean_line)
      THEN items
      ELSE IF clean_line = ""
      THEN items
      ELSE IF /\ \E i \in 1..Len(clean_line) : isdigit(Char(clean_line, i))
              /\ \E i \in 1..Len(clean_line) : isalpha(Char(clean_line, i))
      THEN list_append(items, clean_line)
      ELSE items

RECURSIVE filter_loop(_, _)
filter_loop(items, lines) ==
  IF lines = <<>> THEN items
  ELSE filter_loop(filter_line(items, Head(lines)), Tail(lines))

get_items_from_text(text) == filter_loop(<<>>, splitlines(text))

\* get_items_only of src/src/logic.py: one pass of its loop, which tests the
\* exclusion keywords and the empty line in one condition. (get_items_only of
\* src/logic.py is, statement for statement, get_items_from_text.)
only_line(items, line) ==
  LET clean_line == upper(strip(line))
  IN  IF \/ \E k \in 1..Len(excluded_keywords) : In(excluded_keywords[k], clean_line)
         \/ clean_line = ""
      THEN items
      ELSE IF /\ \E i \in 1..Len(clean_line) : isdigit(Char(clean_line, i))
              /\ \E i \in 1..Len(clean_line) : isalpha(Char(clean_line, i))
      THEN list_append(items, clean_line)
      ELSE items

RECURSIVE only_loop(_, _)
only_loop(items, lines) ==
  IF lines = <<>> THEN items
  ELSE only_loop(only_line(items, Head(lines)), Tail(lines))

get_items_only(text) == only_loop(<<>>, splitlines(text))

(***************************************************************************)
(* PlasticItem and the classifier's tables.                                *)
(***************************************************************************)
\* the footprint table with the key of one category misspelt
calculate_carbon_footprint_bags(category) ==
  CASE category = "bottle"    -> 828
    [] category = "container" -> 552
    [] category = "bags"      -> 330
    [] category = "cup"       -> 285
    [] category = "utensil"   -> 183
    [] OTHER                  -> 400

\* PlasticItem._calculate_carbon_footprint, in tenths of a gram
calculate_carbon_footprint(category) ==
  CASE category = "bottle"    -> 828
    [] category = "container" -> 552
    [] category = "bag"       -> 330
    [] category = "cup"       -> 285
    [] category = "utensil"   -> 183
    [] OTHER                  -> 400

\* datetime.now().strftime("%Y-%m-%d"): the calendar day of a clock second
DateOf(clock) == clock \div TicksPerDay

\* the receipt id written without its timestamp
ReceiptId_plain(clock) == "receipt-"

\* f"receipt-{datetime.now().strftime('%Y%m%d-%H%M%S')}"
ReceiptId(clock) == "receipt-" \o ToString(clock)

\* PlasticItem.__init__ creating the item as already recycled
PlasticItem_recycled(name, category, receipt_id, uuid, clock) ==
  [ id               |-> uuid,
    name             |-> name,
    category         |-> category,
    date             |-> DateOf(clock),
    receipt_id       |-> receipt_id,
    carbon_footprint |-> calculate_carbon_footprint(category),
    recycled         |-> TRUE ]

\* PlasticItem.__init__ building the receipt id from the clock it reads itself
PlasticItem_stamped(name, category, receipt_id, uuid, clock) ==
  [ id               |-> uuid,
    name             |-> name,
    category         |-> category,
    date             |-> DateOf(clock),
    receipt_id       |-> ReceiptId(clock),
    carbon_footprint |-> calculate_carbon_footprint(category),
    recycled         |-> FALSE ]

\* PlasticItem.__init__, with the uuid4 drawn and the clock read
PlasticItem(name, category, receipt_id, uuid, clock) ==
  [ id               |-> uuid,
    name             |-> name,
    category         |-> category,
    date             |-> DateOf(clock),
    receipt_id       |-> receipt_id,
    carbon_footprint |-> calculate_carbon_footprint(category),
    recycled         |-> FALSE ]

\* to_dict writing every item as not yet recycled
to_dict_unflagged(item) ==
  [ id               |-> item.id,
    name             |-> item.name,
    category         |-> item.category,
    date             |-> item.date,
    receipt_id       |-> item.receipt_id,
    carbon_footprint |-> item.carbon_footprint,
    recycled         |-> FALSE ]

\* PlasticItem.to_dict
to_dict(item) ==
  [ id               |-> item.id,
    name             |-> item.name,
    category         |-> item.category,
    date             |-> item.date,
    receipt_id       |-> item.receipt_id,
    carbon_footprint |-> item.carbon_footprint,
    recycled         |-> item.recycled ]

\* plastic_keywords with the categories in alphabetical order
plastic_keywords_sorted ==
  << [category |-> "bag",       keywords |-> <<"BAG", "PLASTIC BAG", "SHOPPING BAG">>],
     [category |-> "bottle",    keywords |-> <<"BOTTLE", "WATER", "SODA", "BEVERAGE">>],
     [category |-> "container", keywords |-> <<"CONTAINER", "YOGURT", "SALAD", "TAKEOUT">>],
     [category |-> "cup",       keywords |-> <<"CUP", "COFFEE", "DRINK">>],
     [category |-> "utensil",   keywords |-> <<"UTENSIL", "FORK", "SPOON", "KNIFE", "CUTLERY">>] >>

\* self.plastic_keywords, in the dict's insertion order
plastic_keywords ==
  << [category |-> "bottle",    keywords |-> <<"BOTTLE", "WATER", "SODA", "BEVERAGE">>],
     [category |-> "container", keywords |-> <<"CONTAINER", "YOGURT", "SALAD", "TAKEOUT">>],
     [category |-> "bag",       keywords |-> <<"BAG", "PLASTIC BAG", "SHOPPING BAG">>],
     [category |-> "cup",       keywords |-> <<"CUP", "COFFEE", "DRINK">>],
     [category |-> "utensil",   keywords |-> <<"UTENSIL", "FORK", "SPOON", "KNIFE", "CUTLERY">>] >>

\* any(keyword in item_upper for keyword in keywords), for the i-th entry
any_keyword(i, item_upper) ==
  \E k \in 1..Len(plastic_keywords[i].keywords) : In(plastic_keywords[i].keywords[k], item_upper)

\* first_match with the loop variable used after a loop that did not break
first_match_or_last(item) ==
  LET item_upper == upper(item)
  IN  IF \E i \in 1..Len(plastic_keywords) : any_keyword(i, item_upper)
      THEN CHOOSE i \in 1..Len(plastic_keywords) :
             /\ any_keyword(i, item_upper)
             /\ \A j \in 1..(i - 1) : ~any_keyword(j, item_upper)
      ELSE Len(plastic_keywords)

\* the inner loop of detect_plastic_items: the index of the entry at which the
\* loop breaks, 0 when it runs to its end
first_match(item) ==
  LET item_upper == upper(item)
  IN  IF \E i \in 1..Len(plastic_keywords) : any_keyword(i, item_upper)
      THEN CHOOSE i \in 1..Len(plastic_keywords) :
             /\ any_keyword(i, item_upper)
             /\ \A j \in 1..(i - 1) : ~any_keyword(j, item_upper)
      ELSE 0

(***************************************************************************)
(* The storage file: absent, truncated by open(..., 'w'), holding the JSON *)
(* list json.dump wrote, or holding the bytes of two overlapping writes.   *)
(***************************************************************************)
Absent == [state |-> "absent", data |-> <<>>]
Truncated == [state |-> "truncated", data |-> <<>>]
Corrupt == [state |-> "corrupt", data |-> <<>>]
Written(data) == [state |-> "written", data |-> data]

\* dump leaving out the items already recycled
dump_unrecycled(its) ==
  LET open == SelectSeq(its, LAMBDA item : ~item.recycled)
  IN  [i \in 1..Len(open) |-> to_dict(open[i])]

\* [item.to_dict() for item in self.items]
dump(its) == [i \in 1..Len(its) |-> to_dict(its[i])]

\* load_item with the name and the category passed in each other's place
load_item_swapped(item_data, uuid, clock) ==
  LET item == PlasticItem(item_data.category, item_data.name, item_data.receipt_id,
                          uuid, clock)
  IN  [item EXCEPT !.id = item_data.id,
                   !.date = item_data.date,
                   !.carbon_footprint = item_data.carbon_footprint,
                   !.recycled = item_data.recycled]

\* the loop body of load_items: the item built from one JSON object
load_item(item_data, uuid, clock) ==
  LET item == PlasticItem(item_data.name, item_data.category, item_data.receipt_id,
                          uuid, clock)
  IN  [item EXCEPT !.id = item_data.id,
                   !.date = item_data.date,
                   !.carbon_footprint = item_data.carbon_footprint,
                   !.recycled = item_data.recycled]

\* load_items on a fresh tracker (self.items = [])
load_items(f, uuid, clock) ==
  IF f.state = "absent" THEN <<>>
  ELSE [i \in 1..Len(f.data) |-> load_item(f.data[i], uuid, clock)]

\* the loop of mark_as_recycled with the assignment outside the if
mark_loop_all(its, item_id) ==
  IF \E i \in 1..Len(its) : its[i].id = item_id
  THEN LET k == CHOOSE i \in 1..Len(its) :
                  /\ its[i].id = item_id
                  /\ \A j \in 1..(i - 1) : its[j].id # item_id
       IN  [i \in 1..Len(its) |-> IF i <= k THEN [its[i] EXCEPT !.recycled = TRUE]
                                  ELSE its[i]]
  ELSE [i \in 1..Len(its) |-> [its[i] EXCEPT !.recycled = TRUE]]

\* the loop of mark_as_recycled: the first item with the id is set, then break
mark_loop(its, item_id) ==
  IF \E i \in 1..Len(its) : its[i].id = item_id
  THEN LET k == CHOOSE i \in 1..Len(its) :
                  /\ its[i].id = item_id
                  /\ \A j \in 1..(i - 1) : its[j].id # item_id
       IN  [its EXCEPT ![k].recycled = TRUE]
  ELSE its

(***************************************************************************)
(* The rewards system (src/src/rewards.py).                                *)
(***************************************************************************)
\* the Achievement objects of _initialize_default_achievements, in list order
default_achievements ==
  << [id |-> "recycling_novice",     title |-> "Recycling Novice",
      required_items |-> 5,  discount_amount |-> 10],
     [id |-> "recycling_enthusiast", title |-> "Recycling Enthusiast",
      required_items |-> 10, discount_amount |-> 15],
     [id |-> "recycling_hero",       title |-> "Recycling Hero",
      required_items |-> 25, discount_amount |-> 25],
     [id |-> "planet_savior",        title |-> "Planet Savior",
      required_items |-> 50, discount_amount |-> 50] >>

\* one step of a stable sort: a put behind the elements that are not larger
RECURSIVE insert_by_required_items(_, _)
insert_by_required_items(sorted_list, a) ==
  IF sorted_list = <<>> THEN <<a>>
  ELSE IF a.required_items < Head(sorted_list).required_items
       THEN <<a>> \o sorted_list
       ELSE <<Head(sorted_list)>> \o insert_by_required_items(Tail(sorted_list), a)

\* sorted(self.achievements, key=lambda a: a.required_items)
RECURSIVE sorted(_)
sorted(achievements) ==
  IF achievements = <<>> THEN <<>>
  ELSE insert_by_required_items(sorted(SubSeq(achievements, 1, Len(achievements) - 1)),
                                achievements[Len(achievements)])

\* the loop of check_achievements with the break after the if: only the
\* first achievement of the sorted list is looked at
first_looked_at(achievements, earned, recycled_count) ==
  IF /\ achievements # <<>>
     /\ achievements[1].required_items <= recycled_count
     /\ \A k \in 1..Len(earned) : earned[k] # achievements[1].id
  THEN 1 ELSE 0

\* the loop of check_achievements without the test for an earned id
first_reached(achievements, earned, recycled_count) ==
  LET hits == {i \in 1..Len(achievements) :
                 achievements[i].required_items <= recycled_count}
  IN  IF hits = {} THEN 0
      ELSE CHOOSE i \in hits : \A j \in hits : i <= j

\* the loop of check_achievements going through the achievements from the
\* largest required_items down
last_unearned(achievements, earned, recycled_count) ==
  LET hits == {i \in 1..Len(achievements) :
                 /\ achievements[i].required_items <= recycled_count
                 /\ \A k \in 1..Len(earned) : earned[k] # achievements[i].id}
  IN  IF hits = {} THEN 0
      ELSE CHOOSE i \in hits : \A j \in hits : i >= j

\* the loop of check_achievements up to its break: the position, in the
\* sorted list, of the first achievement that is reached and not yet earned,
\* and 0 when the loop ends without one
first_unearned(achievements, earned, recycled_count) ==
  LET hits == {i \in 1..Len(achievements) :
                 /\ achievements[i].required_items <= recycled_count
                 /\ \A k \in 1..Len(earned) : earned[k] # achievements[i].id}
  IN  IF hits = {} THEN 0
      ELSE CHOOSE i \in hits : \A j \in hits : i <= j

\* the gift card codes the random generator is seen to draw: six characters
\* out of A-Z and 0-9
Codes == {"A1B2C3", "RECYCL", "000000", "9Z9Z9Z"}

\* generate_gift_card_code without the loop that draws again
generate_gift_card_code_once(cards) == Codes

\* generate_gift_card_code: codes are drawn until one is no card's code
generate_gift_card_code(cards) ==
  {code \in Codes : \A i \in 1..Len(cards) : cards[i].code # code}

\* GiftCard.__init__, with the clock read; date_redeemed is None (<<>>) or a day
GiftCard(code, discount_amount, achievement_id, clock) ==
  [ code            |-> code,
    discount_amount |-> discount_amount,
    achievement_id  |-> achievement_id,
    date_earned     |-> DateOf(clock),
    is_redeemed     |-> FALSE,
    date_redeemed   |-> <<>> ]

\* GiftCard.redeem writing the date only
redeem_dated(card, clock) ==
  [card EXCEPT !.date_redeemed = <<DateOf(clock)>>]

\* GiftCard.redeem
redeem(card, clock) ==
  [card EXCEPT !.is_redeemed = TRUE, !.date_redeemed = <<DateOf(clock)>>]

\* GiftCard.to_dict
GiftCard_to_dict(card) ==
  [ code            |-> card.code,
    discount_amount |-> card.discount_amount,
    achievement_id  |-> card.achievement_id,
    date_earned     |-> card.date_earned,
    is_redeemed     |-> card.is_redeemed,
    date_redeemed   |-> card.date_redeemed ]

\* GiftCard.from_dict: a new card, then the saved dates and flag
GiftCard_from_dict(data, clock) ==
  [GiftCard(data.code, data.discount_amount, data.achievement_id, clock)
     EXCEPT !.date_earned = data.date_earned,
            !.is_redeemed = data.is_redeemed,
            !.date_redeemed = data.date_redeemed]

\* save_data: the file after open(..., 'w') and json.dump
save_data(achievements, earned, cards) ==
  Written([ achievements        |-> achievements,
            gift_cards          |-> [i \in 1..Len(cards) |-> GiftCard_to_dict(cards[i])],
            earned_achievements |-> earned ])

\* load_data reading the gift cards only
load_data_cards(f, clock) ==
  IF f.state = "written"
  THEN [ earned_achievements |-> <<>>,
         gift_cards |-> [i \in 1..Len(f.data.gift_cards) |->
                           GiftCard_from_dict(f.data.gift_cards[i], clock)] ]
  ELSE [ earned_achievements |-> <<>>, gift_cards |-> <<>> ]

\* load_data: the earned ids and the gift cards of a RewardsSystem built on file f
load_data(f, clock) ==
  IF f.state = "written"
  THEN [ earned_achievements |-> f.data.earned_achievements,
         gift_cards |-> [i \in 1..Len(f.data.gift_cards) |->
                           GiftCard_from_dict(f.data.gift_cards[i], clock)] ]
  ELSE [ earned_achievements |-> <<>>, gift_cards |-> <<>> ]

\* the loop of redeem_gift_card up to its break: the position of the first
\* card with the code, and 0 when no card has it
first_with_code(cards, code) ==
  LET hits == {i \in 1..Len(cards) : cards[i].code = code}
  IN  IF hits = {} THEN 0
      ELSE CHOOSE i \in hits : \A j \in hits : i <= j

(***************************************************************************)
(* State.                                                                  *)
(***************************************************************************)
VARIABLES
  items,      \* tracker.items
  file,       \* the storage file plastic_items.json
  next_uuid,  \* the uuid4 values drawn so far
  now,        \* the clock, in seconds
  receipts,   \* the receipt invocations started so far
  pc,         \* per session thread: where its call on the tracker stands
  frame,      \* per session thread: the locals of its call
  result,     \* per session thread: what its last call returned or raised
  pre,        \* per session thread: tracker.items and the file when its call began
  wrote,      \* per session thread: the tracker state its running call has written
  reloaded,   \* whether tracker.items was read back from the storage file
  hist,       \* the second each receipt invocation started in, the
              \* invocation that drew each uuid4, the largest count
              \* check_achievements was called with, and per achievement the
              \* calls whose count reached it (counted up to one per achievement)
  earned_achievements,  \* rewards.earned_achievements
  gift_cards,           \* rewards.gift_cards
  rewards_file,         \* the storage file rewards_data.json
  rcall,      \* the last call on the rewards system: its arguments, the
              \* state it found and what it returned
  session,    \* st.session_state and the page chosen in the sidebar
  shown       \* what the last script run put on the page, and the achievement
              \* a Mark as Recycled press earned that no Rewards page showed yet

rewards_vars == <<earned_achievements, gift_cards, rewards_file, rcall>>

app_vars == <<session, shown>>

\* a session before its first script run: the radio shows its first option
NoSession ==
  [ page |-> "Dashboard", just_earned_achievement |-> "None",
    show_animation |-> FALSE, rerun |-> FALSE ]

\* nothing put on the page yet
NoShown ==
  [ page |-> "none", progress |-> <<>>, is_new |-> {},
    just_earned_achievement |-> "None", awaited |-> "None" ]

\* the variables of the tracker and of its sessions, the clock apart
tracker_vars ==
  <<items, file, next_uuid, receipts, pc, frame, result, pre, wrote, reloaded>>

vars ==
  <<items, file, next_uuid, now, receipts, pc, frame, result, pre, wrote,
    reloaded, hist, rewards_vars, app_vars>>

\* no call on the rewards system yet
NoCall ==
  [ op |-> "none", recycled_count |-> 0, code |-> "", ret |-> "",
    pre |-> [earned_achievements |-> <<>>, gift_cards |-> <<>>,
             rewards_file |-> Absent] ]

\* the session threads sharing the cached tracker (st.cache_resource)
Procs == {1, 2}

NoFrame ==
  [ op |-> "none", image |-> "none", receipt_id |-> "", text |-> "",
    items |-> <<>>, idx |-> 0, plastic_items |-> <<>>, item_id |-> 0,
    ocr |-> "none", stages |-> <<>>, invocation |-> 0 ]

NoResult ==
  [ outcome |-> "none", returns |-> {}, items |-> <<>>, lines |-> <<>>, text |-> "" ]

Init ==
  /\ items = load_items(Absent, 1, 0)
  /\ file = Absent
  /\ next_uuid = 1
  /\ now = 0
  /\ receipts = 0
  /\ pc = [p \in Procs |-> "idle"]
  /\ frame = [p \in Procs |-> NoFrame]
  /\ result = [p \in Procs |-> NoResult]
  /\ pre = [p \in Procs |-> [items |-> <<>>, file |-> Absent]]
  /\ wrote = [p \in Procs |-> {}]
  /\ reloaded = FALSE
  /\ hist = [started |-> <<>>, producer |-> <<>>, max_count |-> 0,
             calls |-> [i \in 1..Len(default_achievements) |-> 0]]
  /\ earned_achievements = <<>>
  /\ gift_cards = <<>>
  /\ rewards_file = Absent
  /\ rcall = NoCall
  /\ session = NoSession
  /\ shown = NoShown

\* the seconds the clock may show at its next reading
Later == {t \in {now, now + 1} : t <= MaxClock}

(***************************************************************************)
(* process_receipt, one step per stage; detect_plastic_items one step per  *)
(* line, since each step appends to the shared tracker.items.              *)
(***************************************************************************)
\* an exception leaves the call: nothing is returned
Raise(p) ==
  /\ pc' = [pc EXCEPT ![p] = "done"]
  /\ result' = [result EXCEPT ![p] = [NoResult EXCEPT !.outcome = "error"]]

\* process_receipt is entered: the receipt id is built from the clock
StartReceipt(p, budget) ==
  /\ pc[p] = "idle"
  /\ receipts < budget
  /\ \E t \in Later, img \in {"readable", "unreadable"} :
       /\ now' = t
       /\ frame' = [frame EXCEPT ![p] = [NoFrame EXCEPT !.op = "receipt",
                                                         !.image = img,
                                                         !.receipt_id = ReceiptId(t),
                                                         !.invocation = receipts + 1]]
  /\ receipts' = receipts + 1
  /\ hist' = [hist EXCEPT !.started = Append(@, now')]
  /\ pc' = [pc EXCEPT ![p] = "preprocess"]
  /\ result' = [result EXCEPT ![p] = NoResult]
  /\ pre' = [pre EXCEPT ![p] = [items |-> items, file |-> file]]
  /\ wrote' = [wrote EXCEPT ![p] = {}]
  /\ UNCHANGED <<items, file, next_uuid, reloaded, rewards_vars, app_vars>>

\* preprocess_image going on with no image where the decoding failed
preprocess_image_quiet(image) == "processed"

\* preprocess_image: cv.imread gives None for a file it cannot decode, and
\* image.shape then raises (in src/src/logic.py, Image.open raises)
preprocess_image(image) == IF image = "readable" THEN "processed" ELSE "raise"

\* extract_text giving an empty text where the OCR engine failed
extract_text_quiet(engine) == [raised |-> FALSE, text |-> engine.text]

\* extract_text: pytesseract.image_to_string returns the text or raises
extract_text(engine) ==
  IF engine.ok THEN [raised |-> FALSE, text |-> engine.text]
  ELSE [raised |-> TRUE, text |-> ""]

\* what the OCR engine may do on a processed image
Engine(pool) == [ok : {TRUE}, text : pool] \cup {[ok |-> FALSE, text |-> ""]}

\* processed_image = self.preprocess_image(image_path)
PreprocessImage(p) ==
  /\ pc[p] = "preprocess"
  /\ frame' = [frame EXCEPT ![p].stages = Append(@, "normalize")]
  /\ IF preprocess_image(frame[p].image) = "raise"
     THEN Raise(p)
     ELSE /\ pc' = [pc EXCEPT ![p] = "extract"]
          /\ UNCHANGED result
  /\ UNCHANGED <<items, file, next_uuid, now, receipts, pre, wrote, reloaded, hist, rewards_vars, app_vars>>

\* text = self.extract_text(processed_image)
ExtractText(p, pool) ==
  /\ pc[p] = "extract"
  /\ \E t \in Later : now' = t
  /\ \E engine \in Engine(pool) :
       LET r == extract_text(engine)
       IN  /\ frame' = [frame EXCEPT ![p].text = r.text,
                                     ![p].ocr = IF engine.ok THEN "ok" ELSE "failed",
                                     ![p].stages = Append(@, "extract")]
           /\ IF r.raised
              THEN Raise(p)
              ELSE /\ pc' = [pc EXCEPT ![p] = "filter"]
                   /\ UNCHANGED result
  /\ UNCHANGED <<items, file, next_uuid, receipts, pre, wrote, reloaded, hist, rewards_vars, app_vars>>

\* items = self.get_items_from_text(text), and detect_plastic_items is entered
GetItems(p) ==
  /\ pc[p] = "filter"
  /\ frame' = [frame EXCEPT ![p].items = get_items_from_text(frame[p].text),
                            ![p].idx = 1,
                            ![p].stages = @ \o <<"filter", "classify">>]
  /\ pc' = [pc EXCEPT ![p] = "detect"]
  /\ UNCHANGED <<items, file, next_uuid, now, receipts, result, pre, wrote, reloaded, hist, rewards_vars, app_vars>>

\* one pass of the outer loop of detect_plastic_items
DetectItem(p) ==
  /\ pc[p] = "detect"
  /\ frame[p].idx <= Len(frame[p].items)
  /\ LET item == frame[p].items[frame[p].idx]
         m == first_match(item)
         plastic_item == PlasticItem(item, plastic_keywords[m].category,
                                     frame[p].receipt_id, next_uuid, now)
     IN  IF m # 0
         THEN /\ frame' = [frame EXCEPT ![p].plastic_items = list_append(@, plastic_item),
                                        ![p].idx = @ + 1]
              /\ items' = list_append(items, plastic_item)
              /\ next_uuid' = next_uuid + 1
              /\ wrote' = [wrote EXCEPT ![p] = @ \cup {"items"}]
              /\ hist' = [hist EXCEPT !.producer = Append(@, frame[p].invocation)]
         ELSE /\ frame' = [frame EXCEPT ![p].idx = @ + 1]
              /\ UNCHANGED <<items, next_uuid, wrote, hist>>
  /\ UNCHANGED <<file, now, receipts, pc, result, pre, reloaded, rewards_vars, app_vars>>

\* save_items: open(self.storage_file, 'w') truncates the file
SaveOpen(p) ==
  /\ \/ pc[p] = "detect" /\ frame[p].idx > Len(frame[p].items)
     \/ pc[p] = "save"
  /\ file' = Truncated
  /\ wrote' = [wrote EXCEPT ![p] = @ \cup {"file"}]
  /\ pc' = [pc EXCEPT ![p] = "write"]
  /\ UNCHANGED <<items, next_uuid, now, receipts, frame, result, pre, reloaded, hist, rewards_vars, app_vars>>

\* process_receipt refusing to return an empty list
process_return_nonempty(plastic_items) ==
  IF plastic_items = <<>> THEN [NoResult EXCEPT !.outcome = "error"]
  ELSE [NoResult EXCEPT !.outcome = "ok", !.returns = {"items"}, !.items = plastic_items]

\* return plastic_items: the list of items is all that process_receipt returns
process_return(plastic_items) ==
  [NoResult EXCEPT !.outcome = "ok", !.returns = {"items"}, !.items = plastic_items]

\* save_items: json.dump and close, then the call returns, and with it
\* process_receipt or mark_as_recycled. Bytes another
\* handle wrote since this one truncated the file are overwritten from offset
\* 0 and may leave a tail behind.
SaveWrite(p) ==
  /\ pc[p] = "write"
  /\ \/ file' = Written(dump(items))
     \/ /\ file # Truncated
        /\ file' = Corrupt
  /\ pc' = [pc EXCEPT ![p] = "done"]
  /\ result' = [result EXCEPT ![p] =
                  IF frame[p].op = "receipt" THEN process_return(frame[p].plastic_items)
                  ELSE [NoResult EXCEPT !.outcome = "ok"]]
  /\ UNCHANGED <<items, next_uuid, now, receipts, frame, pre, wrote, reloaded, hist, rewards_vars, app_vars>>

\* the caller has taken the result; the thread is free for its next call
Finish(p) ==
  /\ pc[p] = "done"
  /\ pc' = [pc EXCEPT ![p] = "idle"]
  /\ frame' = [frame EXCEPT ![p] = NoFrame]
  /\ result' = [result EXCEPT ![p] = NoResult]
  /\ pre' = [pre EXCEPT ![p] = [items |-> <<>>, file |-> Absent]]
  /\ wrote' = [wrote EXCEPT ![p] = {}]
  /\ UNCHANGED <<items, file, next_uuid, now, receipts, reloaded, hist, rewards_vars, app_vars>>

\* analyze_receipt returning the text without its outer whitespace
analyze_data_stripped(items_purchased, text_result) ==
  [NoResult EXCEPT !.outcome = "ok", !.returns = {"items", "text"},
                   !.lines = items_purchased, !.text = strip(text_result)]

\* data = {"items": items_purchased, "text": text_result}; return data
analyze_data(items_purchased, text_result) ==
  [NoResult EXCEPT !.outcome = "ok", !.returns = {"items", "text"},
                   !.lines = items_purchased, !.text = text_result]

\* analyze_receipt(image_bytes) of src/src/logic.py, the receipt endpoint's
\* pipeline: preprocess_image (Image.open raises on bytes that are no image),
\* extract_text, get_items_only. It reads and writes nothing of the tracker.
AnalyzeReceipt(p, pool) ==
  /\ pc[p] = "idle"
  /\ \E img \in {"readable", "unreadable"}, engine \in Engine(pool) :
       LET decoded == preprocess_image(img) # "raise"
           r == extract_text(engine)
       IN  /\ frame' = [frame EXCEPT ![p] =
                  [NoFrame EXCEPT
                     !.op = "analyze",
                     !.image = img,
                     !.ocr = IF ~decoded THEN "none"
                             ELSE IF engine.ok THEN "ok" ELSE "failed",
                     !.text = IF decoded THEN r.text ELSE "",
                     !.stages = IF ~decoded THEN <<"normalize">>
                                ELSE IF r.raised THEN <<"normalize", "extract">>
                                ELSE <<"normalize", "extract", "filter">>]]
           /\ result' = [result EXCEPT ![p] =
                  IF ~decoded \/ r.raised THEN [NoResult EXCEPT !.outcome = "error"]
                  ELSE analyze_data(get_items_only(r.text), r.text)]
  /\ pc' = [pc EXCEPT ![p] = "done"]
  /\ pre' = [pre EXCEPT ![p] = [items |-> items, file |-> file]]
  /\ wrote' = [wrote EXCEPT ![p] = {}]
  /\ UNCHANGED <<items, file, next_uuid, now, receipts, reloaded, hist, rewards_vars, app_vars>>

\* mark_as_recycled(item_id): the loop, then save_items
MarkAsRecycled(p) ==
  /\ pc[p] = "idle"
  /\ \E item_id \in 1..next_uuid :
       /\ items' = mark_loop(items, item_id)
       /\ frame' = [frame EXCEPT ![p] = [NoFrame EXCEPT !.op = "mark", !.item_id = item_id]]
       /\ wrote' = [wrote EXCEPT ![p] = IF items' # items THEN {"items"} ELSE {}]
  /\ pre' = [pre EXCEPT ![p] = [items |-> items, file |-> file]]
  /\ result' = [result EXCEPT ![p] = NoResult]
  /\ pc' = [pc EXCEPT ![p] = "save"]
  /\ UNCHANGED <<file, next_uuid, now, receipts, reloaded, hist, rewards_vars, app_vars>>

\* the history after a call of check_achievements(recycled_count)
called(h, recycled_count) ==
  [h EXCEPT
     !.max_count = IF recycled_count > @ THEN recycled_count ELSE @,
     !.calls = [i \in 1..Len(default_achievements) |->
                  IF /\ default_achievements[i].required_items <= recycled_count
                     /\ @[i] < Len(default_achievements)
                  THEN @[i] + 1 ELSE @[i]]]

\* what a call on the rewards system finds
Before ==
  [ earned_achievements |-> earned_achievements,
    gift_cards          |-> gift_cards,
    rewards_file        |-> rewards_file ]

\* ---------------------------------------------------------------------------
\* The script of the app (src/app.py): one script run is one step

\* get_stats()['recycled_plastics']
recycled_plastics(its) == Cardinality({i \in 1..Len(its) : its[i].recycled})

\* check_achievements on the rewards state rw, the drawn code being code: the
\* rewards state after the call and the id of the returned achievement
check_achievements(rw, recycled_count, code, clock) ==
  LET achievements == sorted(default_achievements)
      k == first_unearned(achievements, rw.earned_achievements, recycled_count)
  IN  IF k = 0
      THEN [rw |-> rw, ret |-> "None"]
      ELSE LET earned == list_append(rw.earned_achievements, achievements[k].id)
               cards == list_append(rw.gift_cards,
                                    GiftCard(code, achievements[k].discount_amount,
                                             achievements[k].id, clock))
           IN  [ rw  |-> [ earned_achievements |-> earned,
                           gift_cards          |-> cards,
                           rewards_file        |-> save_data(default_achievements,
                                                             earned, cards) ],
                 ret |-> achievements[k].id ]

\* redeem_gift_card on the rewards state rw
redeem_gift_card(rw, code, clock) ==
  LET k == first_with_code(rw.gift_cards, code)
  IN  IF k # 0 /\ ~rw.gift_cards[k].is_redeemed
      THEN LET cards == [rw.gift_cards EXCEPT ![k] = redeem(@, clock)]
           IN  [ rw  |-> [ earned_achievements |-> rw.earned_achievements,
                           gift_cards          |-> cards,
                           rewards_file        |-> save_data(default_achievements,
                                                             rw.earned_achievements,
                                                             cards) ],
                 ret |-> "True" ]
      ELSE [rw |-> rw, ret |-> "False"]

\* the codes generate_gift_card_code can return in that call
drawn(rw, recycled_count) ==
  IF check_achievements(rw, recycled_count, "", 0).ret = "None" THEN Codes
  ELSE generate_gift_card_code(rw.gift_cards)

\* the record of a check_achievements call
check_call(rw, recycled_count, ret) ==
  [NoCall EXCEPT !.op = "check_achievements", !.recycled_count = recycled_count,
                 !.ret = ret, !.pre = rw]

\* int(x) of Python for the quotient a / b: towards zero
truncate(a, b) == IF a >= 0 THEN a \div b ELSE -((-a) \div b)

min(a, b) == IF a <= b THEN a ELSE b

\* get_progress_to_next_achievement with the earned milestone taken from the
\* count the wrong way round
get_progress_backwards(earned, recycled_count) ==
  LET achievements == sorted(default_achievements)
      unearned == {i \in 1..Len(achievements) :
                     \A k \in 1..Len(earned) : earned[k] # achievements[i].id}
      reached == {achievements[i].required_items : i \in (1..Len(achievements)) \ unearned}
  IN  IF unearned = {}
      THEN [ current_count |-> recycled_count,
             next_milestone |-> achievements[Len(achievements)].required_items,
             percentage |-> 100,
             achievement |-> achievements[Len(achievements)].id ]
      ELSE LET next == CHOOSE i \in unearned : \A j \in unearned : i <= j
               previous_milestone ==
                 IF reached = {} THEN 0
                 ELSE CHOOSE m \in reached : \A r \in reached : m >= r
               adjusted_count == previous_milestone - recycled_count
               required_for_next == achievements[next].required_items - previous_milestone
           IN  [ current_count |-> recycled_count,
                 next_milestone |-> achievements[next].required_items,
                 percentage |-> min(100, truncate(adjusted_count * 100, required_for_next)),
                 achievement |-> achievements[next].id ]

\* get_progress_to_next_achievement(recycled_count). The percentage is
\* int((adjusted_count / required_for_next) * 100); the float product and the
\* integer quotient have the same integer part for the quotients below 1 of
\* the distances between the default milestones.
get_progress_to_next_achievement(earned, recycled_count) ==
  LET achievements == sorted(default_achievements)
      unearned == {i \in 1..Len(achievements) :
                     \A k \in 1..Len(earned) : earned[k] # achievements[i].id}
      reached == {achievements[i].required_items : i \in (1..Len(achievements)) \ unearned}
  IN  IF unearned = {}
      THEN [ current_count |-> recycled_count,
             next_milestone |-> achievements[Len(achievements)].required_items,
             percentage |-> 100,
             achievement |-> achievements[Len(achievements)].id ]
      ELSE LET next == CHOOSE i \in unearned : \A j \in unearned : i <= j
               previous_milestone ==
                 IF reached = {} THEN 0
                 ELSE CHOOSE m \in reached : \A r \in reached : m >= r
               adjusted_count == recycled_count - previous_milestone
               required_for_next == achievements[next].required_items - previous_milestone
           IN  [ current_count |-> recycled_count,
                 next_milestone |-> achievements[next].required_items,
                 percentage |-> min(100, truncate(adjusted_count * 100, required_for_next)),
                 achievement |-> achievements[next].id ]

\* the loop of detect_plastic_items as a whole: the items it creates
RECURSIVE detect_plastic_items(_, _, _, _)
detect_plastic_items(lines, receipt_id, uuid, clock) ==
  IF lines = <<>> THEN <<>>
  ELSE LET m == first_match(Head(lines))
       IN  IF m = 0
           THEN detect_plastic_items(Tail(lines), receipt_id, uuid, clock)
           ELSE <<PlasticItem(Head(lines), plastic_keywords[m].category,
                              receipt_id, uuid, clock)>>
                \o detect_plastic_items(Tail(lines), receipt_id, uuid + 1, clock)

\* the pages of the sidebar radio
Pages == {"Dashboard", "Upload Receipt", "My Items", "Rewards"}

\* the OCR outputs of the receipts uploaded in the app
AppTexts == {"water 1\nBag2\nsoda 3\ncup 4\nfork 5"}

\* the top of the script: check_achievements with the tracker's count, and
\* the session state after it
script_start(rw, sess, its, code, clock) ==
  LET recycled_count == recycled_plastics(its)
      r == check_achievements(rw, recycled_count, code, clock)
  IN  [ rw      |-> r.rw,
        call    |-> check_call(rw, recycled_count, r.ret),
        ret     |-> r.ret,
        session |-> IF r.ret # "None"
                    THEN [sess EXCEPT !.just_earned_achievement = r.ret,
                                      !.show_animation = TRUE]
                    ELSE sess ]

\* the bottom of the script: just_earned_achievement is reset off the Rewards page
script_end(sess, page) ==
  IF page # "Rewards" /\ sess.just_earned_achievement # "None"
  THEN [sess EXCEPT !.just_earned_achievement = "None", !.page = page, !.rerun = FALSE]
  ELSE [sess EXCEPT !.page = page, !.rerun = FALSE]

\* the achievement a Mark as Recycled press earned, until a Rewards page has
\* been put on the screen, another achievement is earned or the session ends
awaited_after(sh, earned_now) ==
  IF earned_now # "None" \/ sh.page = "Rewards" THEN "None" ELSE sh.awaited

\* what a run on a page puts on it: the progress, when the page shows one,
\* and on the Rewards page the active gift cards displayed as newly earned
display(page, rw, sess, its, awaited) ==
  [ page     |-> page,
    progress |-> IF page = "Rewards" \/ (page = "Dashboard" /\ Len(its) > 0)
                 THEN <<get_progress_to_next_achievement(
                          rw.earned_achievements, recycled_plastics(its)).percentage>>
                 ELSE <<>>,
    is_new   |-> IF page = "Rewards"
                 THEN {rw.gift_cards[i].achievement_id : i \in
                         {j \in 1..Len(rw.gift_cards) :
                            /\ ~rw.gift_cards[j].is_redeemed
                            /\ sess.just_earned_achievement =
                                 rw.gift_cards[j].achievement_id}}
                 ELSE {},
    just_earned_achievement |-> sess.just_earned_achievement,
    awaited  |-> awaited ]

\* the app is started again: PlasticTracker() reads the storage file
Restart ==
  /\ \A p \in Procs : pc[p] = "idle"
  /\ file.state \in {"absent", "written"}
  /\ items' = load_items(file, next_uuid, now)
  /\ reloaded' = TRUE
  /\ earned_achievements' = load_data(rewards_file, now).earned_achievements
  /\ gift_cards' = load_data(rewards_file, now).gift_cards
  /\ session' = NoSession
  /\ shown' = NoShown
  /\ UNCHANGED <<file, next_uuid, now, receipts, pc, frame, result, pre, wrote, hist,
                 rewards_file, rcall>>

\* the recycled counts check_achievements is called with
Counts == {4, 5, 12, 50}

\* check_achievements(recycled_count)
CheckAchievements(recycled_count) ==
  LET achievements == sorted(default_achievements)
      k == first_unearned(achievements, earned_achievements, recycled_count)
      call == [NoCall EXCEPT !.op = "check_achievements",
                             !.recycled_count = recycled_count,
                             !.pre = Before]
  IN  /\ IF k = 0
         THEN /\ rcall' = [call EXCEPT !.ret = "None"]
              /\ UNCHANGED <<earned_achievements, gift_cards, rewards_file>>
         ELSE \E code \in generate_gift_card_code(gift_cards) :
                /\ earned_achievements' =
                     list_append(earned_achievements, achievements[k].id)
                /\ gift_cards' =
                     list_append(gift_cards,
                                 GiftCard(code, achievements[k].discount_amount,
                                          achievements[k].id, now))
                /\ rewards_file' =
                     save_data(default_achievements, earned_achievements', gift_cards')
                /\ rcall' = [call EXCEPT !.ret = achievements[k].id]
      /\ hist' = called(hist, recycled_count)
      /\ UNCHANGED <<tracker_vars, now, app_vars>>

\* redeem_gift_card(code)
RedeemGiftCard(code) ==
  LET k == first_with_code(gift_cards, code)
      call == [NoCall EXCEPT !.op = "redeem_gift_card", !.code = code, !.pre = Before]
  IN  /\ IF k # 0 /\ ~gift_cards[k].is_redeemed
         THEN /\ gift_cards' = [gift_cards EXCEPT ![k] = redeem(@, now)]
              /\ rewards_file' =
                   save_data(default_achievements, earned_achievements, gift_cards')
              /\ rcall' = [call EXCEPT !.ret = "True"]
              /\ UNCHANGED earned_achievements
         ELSE /\ rcall' = [call EXCEPT !.ret = "False"]
              /\ UNCHANGED <<earned_achievements, gift_cards, rewards_file>>
      /\ UNCHANGED <<tracker_vars, hist, now, app_vars>>

(***************************************************************************)
(* Specifications.                                                         *)
(***************************************************************************)
\* OCR texts of the app specifications
Texts == {"water 1\nBag2\ntax 3", "x2\r\n soda Cup 4 ", ""}

\* OCR texts of the two-session specification
ConcTexts == {"water 1\nBag2", " soda Cup 4 \nx2"}

\* OCR texts of the filter specification: up to MaxFrags fragments in a row
Frags == {"water 1", "Bag2", "x3", "x", "3", " ", "\n", "\r", "tax"}

RECURSIVE Concats(_)
Concats(n) ==
  IF n = 0 THEN {""}
  ELSE LET shorter == Concats(n - 1)
       IN  shorter \cup {t \o f : t \in shorter, f \in Frags}

FragTexts == Concats(MaxFrags)

\* OCR outputs of whole receipts
ReceiptTexts ==
  { "WALMART\nBOTTLED WATER 1.99\nPLASTIC BAG 0.10\nSUBTOTAL 2.09\nTOTAL 2.09",
    "SUBTOTAL 12.50" }

\* the OCR outputs the filter is run on
FilterTexts == FragTexts \cup ReceiptTexts

\* one session: calls on the tracker follow one another
Next ==
  \/ StartReceipt(1, MaxReceipts)
  \/ PreprocessImage(1)
  \/ ExtractText(1, Texts)
  \/ GetItems(1)
  \/ DetectItem(1)
  \/ SaveOpen(1)
  \/ SaveWrite(1)
  \/ Finish(1)
  \/ AnalyzeReceipt(1, Texts)
  \/ MarkAsRecycled(1)
  \/ Restart

Spec == Init /\ [][Next]_vars

\* one receipt, over every text built of fragments
NextFilter ==
  \/ StartReceipt(1, 1)
  \/ PreprocessImage(1)
  \/ ExtractText(1, FilterTexts)
  \/ GetItems(1)
  \/ DetectItem(1)
  \/ SaveOpen(1)
  \/ SaveWrite(1)
  \/ Finish(1)

SpecFilter == Init /\ [][NextFilter]_vars

\* two sessions whose receipt invocations interleave on the cached tracker
NextConc ==
  \E p \in Procs :
    \/ StartReceipt(p, MaxReceipts)
    \/ PreprocessImage(p)
    \/ ExtractText(p, ConcTexts)
    \/ GetItems(p)
    \/ DetectItem(p)
    \/ SaveOpen(p)
    \/ SaveWrite(p)
    \/ Finish(p)

SpecConc == Init /\ [][NextConc]_vars

\* the calls of one session on the cached rewards system
NextRewards ==
  \/ \E recycled_count \in Counts : CheckAchievements(recycled_count)
  \/ \E code \in Codes : RedeemGiftCard(code)
  \/ Restart

SpecRewards == Init /\ [][NextRewards]_vars

\* one run of the script on a page: a choice in the sidebar, a rerun asked
\* for by st.rerun(), or a reload of the page
RunScript(page) ==
  /\ \A p \in Procs : pc[p] = "idle"
  /\ session.rerun => page = session.page
  /\ \E code \in drawn(Before, recycled_plastics(items)) :
       LET top == script_start(Before, session, items, code, now)
       IN  /\ earned_achievements' = top.rw.earned_achievements
           /\ gift_cards' = top.rw.gift_cards
           /\ rewards_file' = top.rw.rewards_file
           /\ rcall' = top.call
           /\ shown' = display(page, top.rw, top.session, items,
                               awaited_after(shown, top.ret))
           /\ session' = script_end(top.session, page)
  /\ hist' = called(hist, recycled_plastics(items))
  /\ UNCHANGED <<tracker_vars, now>>

\* the clock at an upload: a file is chosen and sent seconds after the last
\* reading, so the clock has moved on as far as the bound lets it
Latest == CHOOSE t \in Later : \A u \in Later : u <= t

\* a run on the Upload Receipt page with a file in the uploader: the top of
\* the script, process_receipt inside try/except, the bottom of the script
UploadReceipt ==
  /\ \A p \in Procs : pc[p] = "idle"
  /\ ~session.rerun
  /\ session.page = "Upload Receipt"
  /\ receipts < MaxReceipts
  /\ \E code \in drawn(Before, recycled_plastics(items)), t \in {Latest},
        img \in {"readable", "unreadable"}, engine \in Engine(AppTexts) :
       LET top == script_start(Before, session, items, code, now)
           r == extract_text(engine)
           ok == preprocess_image(img) # "raise" /\ ~r.raised
           plastic_items ==
             IF ok
             THEN detect_plastic_items(get_items_from_text(r.text), ReceiptId(t),
                                       next_uuid, t)
             ELSE <<>>
       IN  /\ now' = t
           /\ items' = items \o plastic_items
           /\ file' = IF ok THEN Written(dump(items')) ELSE file
           /\ next_uuid' = next_uuid + Len(plastic_items)
           /\ hist' = [called(hist, recycled_plastics(items)) EXCEPT
                         !.started = Append(@, t),
                         !.producer = @ \o [i \in 1..Len(plastic_items) |-> receipts + 1]]
           /\ earned_achievements' = top.rw.earned_achievements
           /\ gift_cards' = top.rw.gift_cards
           /\ rewards_file' = top.rw.rewards_file
           /\ rcall' = top.call
           /\ shown' = display("Upload Receipt", top.rw, top.session, items',
                               awaited_after(shown, top.ret))
           /\ session' = script_end(top.session, "Upload Receipt")
  /\ receipts' = receipts + 1
  /\ UNCHANGED <<pc, frame, result, pre, wrote, reloaded>>

\* the id of the topmost item of the My Items page that has a Mark as
\* Recycled button, 0 when no item has one; the buttons are pressed from the
\* top of the list down
first_button(its) ==
  LET unrecycled == {i \in 1..Len(its) : ~its[i].recycled}
  IN  IF unrecycled = {} THEN 0
      ELSE its[CHOOSE i \in unrecycled : \A j \in unrecycled : i <= j].id

\* the run in which a Mark as Recycled button of the My Items page reports
\* its press: the top of the script, mark_as_recycled, check_achievements
\* with the new count, st.rerun(), which ends the run there
PressMark(item_id) ==
  /\ \A p \in Procs : pc[p] = "idle"
  /\ ~session.rerun
  /\ session.page = "My Items"
  /\ \E i \in 1..Len(items) : items[i].id = item_id /\ ~items[i].recycled
  /\ item_id = first_button(items)
  /\ \E code \in drawn(Before, recycled_plastics(items)) :
       LET top == script_start(Before, session, items, code, now)
           marked == mark_loop(items, item_id)
           recycled_count == recycled_plastics(marked)
       IN  \E code2 \in drawn(top.rw, recycled_count) :
             LET r == check_achievements(top.rw, recycled_count, code2, now)
                 sess == IF r.ret # "None"
                         THEN [top.session EXCEPT !.just_earned_achievement = r.ret,
                                                  !.show_animation = TRUE]
                         ELSE top.session
             IN  /\ items' = marked
                 /\ file' = Written(dump(marked))
                 /\ earned_achievements' = r.rw.earned_achievements
                 /\ gift_cards' = r.rw.gift_cards
                 /\ rewards_file' = r.rw.rewards_file
                 /\ rcall' = check_call(top.rw, recycled_count, r.ret)
                 /\ hist' = called(called(hist, recycled_plastics(items)), recycled_count)
                 /\ session' = [sess EXCEPT !.rerun = TRUE]
                 /\ shown' = [display("My Items", r.rw, sess, marked, "None") EXCEPT
                                !.awaited = IF r.ret # "None" THEN r.ret
                                            ELSE awaited_after(shown, top.ret)]
  /\ UNCHANGED <<next_uuid, receipts, pc, frame, result, pre, wrote, reloaded, now>>

\* a run on the Rewards page in which the Redeem Code form is submitted with
\* a code: st.rerun() after a success, the rest of the script after a refusal
RedeemCode(code) ==
  /\ \A p \in Procs : pc[p] = "idle"
  /\ ~session.rerun
  /\ session.page = "Rewards"
  /\ \E drawn_code \in drawn(Before, recycled_plastics(items)) :
       LET top == script_start(Before, session, items, drawn_code, now)
           r == redeem_gift_card(top.rw, code, now)
       IN  /\ earned_achievements' = r.rw.earned_achievements
           /\ gift_cards' = r.rw.gift_cards
           /\ rewards_file' = r.rw.rewards_file
           /\ rcall' = [NoCall EXCEPT !.op = "redeem_gift_card", !.code = code,
                                      !.ret = r.ret, !.pre = top.rw]
           /\ shown' = display("Rewards", top.rw, top.session, items,
                               awaited_after(shown, top.ret))
           /\ session' = IF r.ret = "True"
                         THEN [top.session EXCEPT !.rerun = TRUE]
                         ELSE script_end(top.session, "Rewards")
  /\ hist' = called(hist, recycled_plastics(items))
  /\ UNCHANGED <<tracker_vars, now>>

\* the codes typed into the Redeem Code form
TypedCodes == {"A1B2C3", "000000"}

\* one session of the app, script run by script run
NextApp ==
  \/ \E page \in Pages : RunScript(page)
  \/ UploadReceipt
  \/ PressMark(first_button(items))
  \/ \E code \in TypedCodes : RedeemCode(code)
  \/ Restart

SpecApp == Init /\ [][NextApp]_vars

(***************************************************************************)
(* Properties of the line filter.                                          *)
(***************************************************************************)
\* the invocations whose filter stage has run
Filtered == {p \in Procs : frame[p].op = "receipt" /\ frame[p].idx > 0}

CleanForm(line) == upper(strip(line))

HasDigit(s) == \E i \in 1..Len(s) : isdigit(Char(s, i))
HasAlpha(s) == \E i \in 1..Len(s) : isalpha(Char(s, i))
HasExcluded(s) == \E k \in 1..Len(excluded_keywords) : In(excluded_keywords[k], s)

\* the lines the filter is to keep
Survives(line) ==
  /\ strip(line) # ""
  /\ ~HasExcluded(CleanForm(line))
  /\ HasDigit(line)
  /\ HasAlpha(line)

Kept(text) ==
  LET survivors == SelectSeq(splitlines(text), Survives)
  IN  [i \in 1..Len(survivors) |-> CleanForm(survivors[i])]

Count(seq, x) == Cardinality({i \in 1..Len(seq) : seq[i] = x})

\* a is b with some entries left out
RECURSIVE IsSubseq(_, _)
IsSubseq(a, b) ==
  IF a = <<>> THEN TRUE
  ELSE IF b = <<>> THEN FALSE
  ELSE IF Head(a) = Head(b) THEN IsSubseq(Tail(a), Tail(b))
  ELSE IsSubseq(a, Tail(b))

\* C1: the filter returns exactly the trimmed, uppercased forms of the input
\* lines that are non-empty after trimming, hold no exclusion keyword and hold
\* a digit and a letter; no other line is returned and none of these is omitted.
C1_FilterExact ==
  \A p \in Filtered :
    /\ frame[p].items = Kept(frame[p].text)
    /\ get_items_only(frame[p].text) = Kept(frame[p].text)

\* a text of which the filter kept a line and dropped a line
C1_Witness ==
  \E p \in Filtered :
    /\ frame[p].items # <<>>
    /\ Len(frame[p].items) < Len(splitlines(frame[p].text))
    /\ \E i \in 1..Len(splitlines(frame[p].text)) :
         HasExcluded(CleanForm(splitlines(frame[p].text)[i]))

\* C5: the surviving lines come out in the order they came in, and a line
\* that occurs several times in the input occurs as often in the output.
C5_FilterOrder ==
  \A p \in Filtered :
    LET lines == splitlines(frame[p].text)
        cleaned == [i \in 1..Len(lines) |-> CleanForm(lines[i])]
        only == get_items_only(frame[p].text)
    IN  /\ IsSubseq(frame[p].items, cleaned)
        /\ \A i \in 1..Len(frame[p].items) :
             Count(frame[p].items, frame[p].items[i]) = Count(cleaned, frame[p].items[i])
        /\ IsSubseq(only, cleaned)
        /\ \A i \in 1..Len(only) : Count(only, only[i]) = Count(cleaned, only[i])

\* a text whose surviving line occurs twice
C5_Witness ==
  \E p \in Filtered :
    /\ Len(frame[p].items) = 2
    /\ frame[p].items[1] = frame[p].items[2]

\* C6: filtering the filter's output, joined with newlines, returns the same
\* lines.
C6_FilterIdempotent ==
  \A p \in Filtered : get_items_from_text(join(frame[p].items)) = frame[p].items

\* a text the first pass changed and kept two lines of
C6_Witness ==
  \E p \in Filtered :
    /\ Len(frame[p].items) = 2
    /\ join(frame[p].items) # frame[p].text

(***************************************************************************)
(* Properties of the classifier.                                           *)
(***************************************************************************)
\* the invocations whose detect_plastic_items has returned
Classified ==
  {p \in Procs : pc[p] = "done" /\ frame[p].op = "receipt" /\ result[p].outcome = "ok"}

\* the declaration order of the categories
CategoryOrder == <<"bottle", "container", "bag", "cup", "utensil">>

Categories == {CategoryOrder[i] : i \in 1..Len(CategoryOrder)}

KeywordsOf(category) ==
  plastic_keywords[CHOOSE i \in 1..Len(plastic_keywords) :
                     plastic_keywords[i].category = category].keywords

Matches(category, line) ==
  \E k \in 1..Len(KeywordsOf(category)) : In(KeywordsOf(category)[k], upper(line))

Matching(line) == {c \in Categories : Matches(c, line)}

HasKeyword(line) == Matching(line) # {}

Earliest(line) ==
  CategoryOrder[CHOOSE i \in 1..Len(CategoryOrder) :
                  /\ CategoryOrder[i] \in Matching(line)
                  /\ \A j \in 1..(i - 1) : CategoryOrder[j] \notin Matching(line)]

Names(its) == [i \in 1..Len(its) |-> its[i].name]

\* C2: a candidate line that holds keywords of two or more categories gets
\* exactly one item, of the earliest of its categories in the order bottle,
\* container, bag, cup, utensil.
C2_FirstMatchWins ==
  \A p \in Classified :
    \A i \in 1..Len(frame[p].items) :
      LET line == frame[p].items[i]
      IN  Cardinality(Matching(line)) >= 2 =>
            /\ Count(Names(result[p].items), line) = Count(frame[p].items, line)
            /\ \A j \in 1..Len(result[p].items) :
                 result[p].items[j].name = line =>
                   result[p].items[j].category = Earliest(line)

\* a returned item whose line holds keywords of two categories
C2_Witness ==
  \E p \in Classified :
    \E j \in 1..Len(result[p].items) :
      Cardinality(Matching(result[p].items[j].name)) >= 2

\* C3: the items returned correspond one to one to the candidate lines that
\* hold a category keyword; a line that holds none gets no item, and every
\* item's category is one of the five.
C3_OnlyKeywordLines ==
  \A p \in Classified :
    /\ \A j \in 1..Len(result[p].items) :
         /\ result[p].items[j].category \in Categories
         /\ HasKeyword(result[p].items[j].name)
         /\ Count(frame[p].items, result[p].items[j].name) > 0
    /\ \A i \in 1..Len(frame[p].items) :
         Count(Names(result[p].items), frame[p].items[i]) =
           IF HasKeyword(frame[p].items[i])
           THEN Count(frame[p].items, frame[p].items[i])
           ELSE 0

\* a receipt with a candidate line that holds no keyword and one that does
C3_Witness ==
  \E p \in Classified :
    /\ result[p].items # <<>>
    /\ \E i \in 1..Len(frame[p].items) : ~HasKeyword(frame[p].items[i])

\* C4: the items returned are in the order of the candidate lines they were
\* built from, repeated lines included.
C4_ItemOrder ==
  \A p \in Classified :
    Names(result[p].items) = SelectSeq(frame[p].items, HasKeyword)

\* two returned items of different lines
C4_Witness ==
  \E p \in Classified :
    /\ Len(result[p].items) = 2
    /\ result[p].items[1].name # result[p].items[2].name

(***************************************************************************)
(* Properties of the items and of the tracker's state.                     *)
(***************************************************************************)
\* the footprint of each category, in tenths of a gram
FootprintTable(category) ==
  CASE category = "bottle"    -> 828
    [] category = "container" -> 552
    [] category = "bag"       -> 330
    [] category = "cup"       -> 285
    [] category = "utensil"   -> 183
    [] OTHER                  -> 400

ItemsOf(seq) == {seq[i] : i \in 1..Len(seq)}

\* every item the classifier has built and that is still referred to
Created ==
  ItemsOf(items) \cup UNION {ItemsOf(frame[p].plastic_items) : p \in Procs}
                 \cup UNION {ItemsOf(result[p].items) : p \in Procs}

\* C7: the footprint of an item is the table's value for its category: two
\* items of one category have one footprint, whatever their names and
\* receipt ids.
C7_FootprintByCategory ==
  /\ \A a \in Created : a.carbon_footprint = FootprintTable(a.category)
  /\ \A a, b \in Created : a.category = b.category => a.carbon_footprint = b.carbon_footprint

\* two items of one category with different names and different receipt ids
C7_Witness ==
  \E a, b \in Created :
    /\ a.category = b.category
    /\ a.name # b.name
    /\ a.receipt_id # b.receipt_id

\* C8: in every reachable state every item of tracker.items has a non-empty
\* name, one of the five categories and the table's footprint of its category.
C8_StoredItemsWellFormed ==
  \A i \in 1..Len(items) :
    /\ items[i].name # ""
    /\ items[i].category \in Categories
    /\ items[i].carbon_footprint = FootprintTable(items[i].category)

\* items read back from the storage file, one of them recycled
C8_Witness ==
  /\ reloaded
  /\ \E i \in 1..Len(items) : items[i].recycled
  /\ \E i \in 1..Len(items) : ~items[i].recycled

\* the receipt invocations that have ended, by a return or by an exception
Ended == {p \in Procs : pc[p] = "done" /\ frame[p].op = "receipt"}

Running == {p \in Procs : pc[p] \notin {"idle", "done"} /\ frame[p].op = "receipt"}

\* what an item is, apart from its uuid and its date
View(item) ==
  [ name             |-> item.name,
    category         |-> item.category,
    receipt_id       |-> item.receipt_id,
    carbon_footprint |-> item.carbon_footprint,
    recycled         |-> item.recycled ]

\* detect_plastic_items run on its own
RECURSIVE DetectAlone(_, _)
DetectAlone(lines, receipt_id) ==
  IF lines = <<>> THEN <<>>
  ELSE LET m == first_match(Head(lines))
           rest == DetectAlone(Tail(lines), receipt_id)
       IN  IF m = 0 THEN rest
           ELSE << [ name             |-> Head(lines),
                     category         |-> plastic_keywords[m].category,
                     receipt_id       |-> receipt_id,
                     carbon_footprint |-> FootprintTable(plastic_keywords[m].category),
                     recycled         |-> FALSE ] >> \o rest

StageOrder == <<"normalize", "extract", "filter", "classify">>

IsPrefix(s, t) == Len(s) <= Len(t) /\ \A i \in 1..Len(s) : s[i] = t[i]

\* the sessions that are inside, or at the return of, a receipt invocation
Invoked == {p \in Procs : frame[p].op = "receipt"}

\* C11: within one receipt invocation the stages run in the order normalize,
\* extract text, filter, classify, each at most once; when normalize or
\* extract text fails, no later stage runs and the invocation ends with the
\* error handed to its caller.
C11_StagesInOrder ==
  \A p \in Invoked :
    /\ IsPrefix(frame[p].stages, StageOrder)
    /\ (frame[p].image = "unreadable" /\ frame[p].stages # <<>>) =>
         /\ frame[p].stages = <<"normalize">>
         /\ pc[p] = "done"
         /\ result[p].outcome = "error"
    /\ frame[p].ocr = "failed" =>
         /\ frame[p].stages = <<"normalize", "extract">>
         /\ pc[p] = "done"
         /\ result[p].outcome = "error"

\* an invocation whose OCR failed after the image was normalized, while an
\* earlier one of the same tracker went through all four stages
C11_Witness ==
  /\ items # <<>>
  /\ \E p \in Ended :
       /\ frame[p].ocr = "failed"
       /\ frame[p].stages = <<"normalize", "extract">>

\* ---------------------------------------------------------------------------
\* Failures of the image and of the OCR engine

\* the ended invocations whose image could not be decoded or whose OCR failed
Failed ==
  {p \in Ended : frame[p].image = "unreadable" \/ frame[p].ocr = "failed"}

\* C12: when the input cannot be decoded as an image, or when OCR fails, the
\* invocation ends in an error outcome, never in a successful empty result;
\* it returns no items and leaves the tracker's item list and its storage
\* file as they were when it started.
C12_FailureIsError ==
  \A p \in Failed :
    /\ result[p].outcome = "error"
    /\ result[p].items = <<>>
    /\ items = pre[p].items
    /\ file = pre[p].file

\* an undecodable image given to a tracker that already stores items
C12_Witness ==
  \E p \in Failed :
    /\ frame[p].image = "unreadable"
    /\ items # <<>>
    /\ file = Written(dump(items))

\* ---------------------------------------------------------------------------
\* A receipt with nothing plastic on it

\* the ended invocations whose image was decoded and whose OCR gave a text
Decoded == Ended \ Failed

\* no line of the text both survives the filter and matches a keyword
NothingPlastic(text) ==
  \A i \in 1..Len(Kept(text)) : ~HasKeyword(Kept(text)[i])

\* C13: when the image decodes and OCR succeeds, but no line survives the
\* filter or no surviving line matches a category keyword, the invocation
\* completes successfully with an empty sequence of items and no error; the
\* outcome tells this case from a failure, which is the only case that ends
\* in an error.
C13_EmptyIsSuccess ==
  /\ \A p \in Decoded :
       /\ result[p].outcome = "ok"
       /\ NothingPlastic(frame[p].text) => result[p].items = <<>>
  /\ \A p \in Ended : result[p].outcome = "error" => p \in Failed

\* a decoded receipt with a candidate line, none of them plastic
C13_Witness ==
  \E p \in Decoded :
    /\ Kept(frame[p].text) # <<>>
    /\ NothingPlastic(frame[p].text)
    /\ result[p].outcome = "ok"
    /\ result[p].items = <<>>

\* ---------------------------------------------------------------------------
\* What a successful invocation returns

\* the invocations of either pipeline that returned to their caller
Returned ==
  {p \in Procs : /\ pc[p] = "done"
                 /\ frame[p].op \in {"receipt", "analyze"}
                 /\ result[p].outcome = "ok"}

AppendedBy(p) == {items[i] : i \in (Len(pre[p].items) + 1)..Len(items)}

\* C15: every item the classifier creates has recycled = FALSE at creation,
\* so the items an invocation has created so far, those it appended to the
\* tracker and those process_receipt returns are unrecycled.
C15_CreatedUnrecycled ==
  \A p \in Invoked :
    /\ \A item \in ItemsOf(frame[p].plastic_items) : ~item.recycled
    /\ \A item \in AppendedBy(p) : ~item.recycled
    /\ \A item \in ItemsOf(result[p].items) : ~item.recycled

\* process_receipt returns items of a tracker that stores a recycled one
C15_Witness ==
  \E p \in Classified :
    /\ result[p].items # <<>>
    /\ \E item \in ItemsOf(items) : item.recycled

\* ---------------------------------------------------------------------------
\* What mark_as_recycled may change

\* the fields of an item that are fixed at its creation
Immutable(item) ==
  [ id               |-> item.id,
    name             |-> item.name,
    category         |-> item.category,
    carbon_footprint |-> item.carbon_footprint,
    receipt_id       |-> item.receipt_id ]

\* the stored items after item_id was marked: that item recycled, all else equal
Marked(its, item_id) ==
  [i \in 1..Len(its) |-> IF its[i].id = item_id
                         THEN [its[i] EXCEPT !.recycled = TRUE]
                         ELSE its[i]]

\* C16: no step of the tracker changes the id, name, category, footprint or
\* receipt id of a stored item; mark_as_recycled(item_id) sets recycled to
\* TRUE on the item with that id and changes no other field and no other
\* item, and changes no item at all when no item has that id.
C16_MarkFrame ==
  [][ /\ Len(items') >= Len(items)
      /\ \A i \in 1..Len(items) : Immutable(items'[i]) = Immutable(items[i])
      /\ \A p \in Procs :
           (frame[p].op # "mark" /\ frame'[p].op = "mark") =>
             items' = Marked(items, frame'[p].item_id)
    ]_vars

\* mark_as_recycled has set the flag of one of two stored items
C16_Witness ==
  \E p \in Procs :
    /\ frame[p].op = "mark"
    /\ pc[p] = "done"
    /\ \E i, j \in 1..Len(items) :
         /\ items[i].id = frame[p].item_id
         /\ items[i].recycled
         /\ ~pre[p].items[i].recycled
         /\ ~items[j].recycled

\* ---------------------------------------------------------------------------
\* Receipt ids

\* no two receipt invocations started within the same clock second
DistinctStarts ==
  \A i, j \in 1..Len(hist.started) :
    i # j => hist.started[i] # hist.started[j]

\* the receipt invocation that created a stored item
Producer(item) == hist.producer[item.id]

\* C17: all items of one invocation carry the receipt id generated once, at
\* the start of that invocation; and, provided no two invocations start
\* within the same clock second, two items carry the same receipt id exactly
\* when the same process_receipt invocation produced them.
C17_ReceiptIdPerInvocation ==
  /\ \A a \in ItemsOf(items) :
       a.receipt_id = ReceiptId(hist.started[Producer(a)])
  /\ DistinctStarts =>
       \A a, b \in ItemsOf(items) :
         a.receipt_id = b.receipt_id <=> Producer(a) = Producer(b)

\* two items of one invocation and a third of another that started in a
\* later second, the clock having moved on inside an invocation
C17_Witness ==
  /\ DistinctStarts
  /\ \E a, b, c \in ItemsOf(items) :
       /\ a # b
       /\ Producer(a) = Producer(b)
       /\ Producer(c) # Producer(a)
       /\ c.receipt_id # a.receipt_id
       /\ hist.started[Producer(a)] # now

\* ---------------------------------------------------------------------------
\* A whole receipt

\* name, category and footprint (in tenths of a gram of CO2) of items
Labels(its) ==
  [i \in 1..Len(its) |-> [ name             |-> its[i].name,
                           category         |-> its[i].category,
                           carbon_footprint |-> its[i].carbon_footprint ]]

\* C18: for the OCR lines WALMART, BOTTLED WATER 1.99, PLASTIC BAG 0.10,
\* SUBTOTAL 2.09, TOTAL 2.09 the filter yields exactly BOTTLED WATER 1.99 and
\* PLASTIC BAG 0.10, and classification yields exactly two items, a bottle
\* with footprint 82.8 and then a bag with footprint 33.0; the single line
\* SUBTOTAL 12.50 is dropped by the filter.
C18_WalmartReceipt ==
  \A p \in Filtered :
    /\ frame[p].text = "WALMART\nBOTTLED WATER 1.99\nPLASTIC BAG 0.10\nSUBTOTAL 2.09\nTOTAL 2.09" =>
         /\ frame[p].items = <<"BOTTLED WATER 1.99", "PLASTIC BAG 0.10">>
         /\ p \in Classified =>
              Labels(result[p].items) =
                << [name |-> "BOTTLED WATER 1.99", category |-> "bottle",
                    carbon_footprint |-> 828],
                   [name |-> "PLASTIC BAG 0.10", category |-> "bag",
                    carbon_footprint |-> 330] >>
    /\ frame[p].text = "SUBTOTAL 12.50" =>
         /\ frame[p].items = <<>>
         /\ p \in Classified => result[p].items = <<>>

\* process_receipt has returned the two items of the Walmart receipt
C18_Witness ==
  \E p \in Classified :
    /\ frame[p].text = "WALMART\nBOTTLED WATER 1.99\nPLASTIC BAG 0.10\nSUBTOTAL 2.09\nTOTAL 2.09"
    /\ Len(result[p].items) = 2

\* ---------------------------------------------------------------------------
\* Lines of letters only, lines of digits only

\* every character of the line is a letter or white space
LettersOnly(line) ==
  \A i \in 1..Len(line) : isalpha(Char(line, i)) \/ Char(line, i) \in Whitespace

\* every character of the line is a digit or white space
DigitsOnly(line) ==
  \A i \in 1..Len(line) : isdigit(Char(line, i)) \/ Char(line, i) \in Whitespace

\* the lines of a text made of letters only or of digits only
Plain(text) ==
  {line \in ItemsOf(splitlines(text)) : LettersOnly(line) \/ DigitsOnly(line)}

\* C19: every line that consists only of letters (and spaces) or only of
\* digits is dropped by the filter, whether or not it contains an exclusion
\* keyword: its clean form is not among the candidate lines.
C19_PlainLinesDropped ==
  \A p \in Filtered :
    \A line \in Plain(frame[p].text) :
      /\ Count(frame[p].items, CleanForm(line)) = 0
      /\ Count(get_items_only(frame[p].text), CleanForm(line)) = 0

\* a text with a line of letters that holds no exclusion keyword and a line
\* of digits
C19_Witness ==
  \E p \in Filtered :
    \E word, number \in Plain(frame[p].text) :
      /\ HasAlpha(word)
      /\ ~HasExcluded(CleanForm(word))
      /\ HasDigit(number)

\* ---------------------------------------------------------------------------
\* check_achievements

\* the achievements a count has reached that were not earned before the call
Reached(recycled_count, earned) ==
  {a \in ItemsOf(default_achievements) :
     /\ a.required_items <= recycled_count
     /\ a.id \notin ItemsOf(earned)}

\* C20: check_achievements(n) returns None and changes nothing when every
\* achievement with required_items <= n is already earned; otherwise it marks
\* as earned exactly one achievement, the unearned one with the smallest
\* required_items among those with required_items <= n, appends exactly one
\* gift card that carries that achievement's id and discount_amount, saves,
\* and returns that achievement.
C20_CheckAchievements ==
  rcall.op = "check_achievements" =>
    LET reached == Reached(rcall.recycled_count, rcall.pre.earned_achievements)
        cards == Len(rcall.pre.gift_cards)
    IN  IF reached = {}
        THEN /\ rcall.ret = "None"
             /\ earned_achievements = rcall.pre.earned_achievements
             /\ gift_cards = rcall.pre.gift_cards
             /\ rewards_file = rcall.pre.rewards_file
        ELSE LET a == CHOOSE a \in reached :
                        \A b \in reached : a.required_items <= b.required_items
             IN  /\ rcall.ret = a.id
                 /\ earned_achievements = rcall.pre.earned_achievements \o <<a.id>>
                 /\ Len(gift_cards) = cards + 1
                 /\ SubSeq(gift_cards, 1, cards) = rcall.pre.gift_cards
                 /\ gift_cards[cards + 1].achievement_id = a.id
                 /\ gift_cards[cards + 1].discount_amount = a.discount_amount
                 /\ rewards_file.state = "written"
                 /\ rewards_file.data.earned_achievements = earned_achievements
                 /\ Len(rewards_file.data.gift_cards) = Len(gift_cards)
                 /\ \A i \in 1..Len(gift_cards) :
                      /\ rewards_file.data.gift_cards[i].code = gift_cards[i].code
                      /\ rewards_file.data.gift_cards[i].achievement_id =
                           gift_cards[i].achievement_id

\* a count that reaches two unearned achievements earns the first of them,
\* on a system that has a redeemed gift card already
C20_Witness ==
  /\ rcall.op = "check_achievements"
  /\ rcall.recycled_count = 50
  /\ Len(rcall.pre.earned_achievements) = 1
  /\ rcall.ret = "recycling_enthusiast"
  /\ gift_cards[1].is_redeemed

\* ---------------------------------------------------------------------------
\* redeem_gift_card

\* the cards that carry the code and are not redeemed
Redeemable(cards, code) ==
  {i \in 1..Len(cards) : cards[i].code = code /\ ~cards[i].is_redeemed}

\* a step that is a call of redeem_gift_card
RedeemStep == rcall'.op = "redeem_gift_card" /\ rcall' # rcall

\* C21: redeem_gift_card(code) returns True exactly when a gift card with
\* that code exists and is not yet redeemed, and then marks that card
\* redeemed; for an unknown code or an already redeemed card it returns False
\* and leaves every gift card unchanged. In every step each gift card stays,
\* and a redeemed card stays redeemed, so a card is redeemed successfully at
\* most once.
C21_RedeemOnce ==
  [][ /\ Len(gift_cards') >= Len(gift_cards)
      /\ \A i \in 1..Len(gift_cards) :
           gift_cards[i].is_redeemed => gift_cards'[i].is_redeemed
      /\ RedeemStep =>
           LET open == Redeemable(gift_cards, rcall'.code)
           IN  /\ rcall'.ret = IF open = {} THEN "False" ELSE "True"
               /\ Len(gift_cards') = Len(gift_cards)
               /\ \A i \in 1..Len(gift_cards) :
                    IF i \in open
                    THEN /\ gift_cards'[i].is_redeemed
                         /\ gift_cards'[i].code = gift_cards[i].code
                         /\ gift_cards'[i].achievement_id = gift_cards[i].achievement_id
                         /\ gift_cards'[i].discount_amount = gift_cards[i].discount_amount
                    ELSE gift_cards'[i] = gift_cards[i]
    ]_vars

\* a redeemed card was presented again and refused, another card being open
C21_Witness ==
  /\ rcall.op = "redeem_gift_card"
  /\ rcall.ret = "False"
  /\ \E i, j \in 1..Len(gift_cards) :
       /\ gift_cards[i].code = rcall.code
       /\ gift_cards[i].is_redeemed
       /\ ~gift_cards[j].is_redeemed

\* ---------------------------------------------------------------------------
\* Gift card codes

\* C22: gift card codes are unique: after any sequence of check_achievements
\* and redeem_gift_card calls no two gift cards of the rewards system have
\* the same code.
C22_CodesUnique ==
  \A i, j \in 1..Len(gift_cards) :
    gift_cards[i].code = gift_cards[j].code => i = j

\* a card whose code was drawn while three other codes were taken, one of
\* them by a redeemed card
C22_Witness ==
  /\ Len(gift_cards) = 4
  /\ rcall.op = "check_achievements"
  /\ rcall.ret = "planet_savior"
  /\ \E i \in 1..3 : gift_cards[i].is_redeemed

\* ---------------------------------------------------------------------------
\* Earned achievements and their gift cards

\* the ids of the defined achievements
AchievementIds ==
  {default_achievements[i].id : i \in 1..Len(default_achievements)}

\* the gift cards given for an achievement id
CardsFor(id) == {i \in 1..Len(gift_cards) : gift_cards[i].achievement_id = id}

\* C23: starting from the empty rewards state, after any sequence of
\* check_achievements and redeem_gift_card calls, earned_achievements holds
\* no id twice, every id in it is the id of a defined achievement, and there
\* is exactly one gift card for every earned id and none for any other.
C23_OneCardPerEarned ==
  /\ \A i, j \in 1..Len(earned_achievements) :
       earned_achievements[i] = earned_achievements[j] => i = j
  /\ ItemsOf(earned_achievements) \subseteq AchievementIds
  /\ \A id \in ItemsOf(earned_achievements) : Cardinality(CardsFor(id)) = 1
  /\ \A i \in 1..Len(gift_cards) :
       gift_cards[i].achievement_id \in ItemsOf(earned_achievements)

\* three achievements earned, by calls whose count reached one earned before,
\* and one of the three cards redeemed
C23_Witness ==
  /\ Len(earned_achievements) = 3
  /\ rcall.op = "check_achievements"
  /\ rcall.recycled_count = 50
  /\ rcall.ret = "recycling_hero"
  /\ \E i \in 1..Len(gift_cards) : gift_cards[i].is_redeemed

\* ---------------------------------------------------------------------------
\* Earned stays earned

\* required_items of the achievement with the id
RequiredItems(id) ==
  LET i == CHOOSE i \in 1..Len(default_achievements) : default_achievements[i].id = id
  IN  default_achievements[i].required_items

\* C24: an achievement is earned only if check_achievements was called, then
\* or earlier, with a recycled count of at least its required_items; and once
\* earned it stays earned: no step removes an id from earned_achievements or
\* removes a gift card.
C24_EarnedStays ==
  [][ /\ IsPrefix(earned_achievements, earned_achievements')
      /\ Len(gift_cards') >= Len(gift_cards)
      /\ \A i \in 1..Len(gift_cards) :
           /\ gift_cards'[i].code = gift_cards[i].code
           /\ gift_cards'[i].achievement_id = gift_cards[i].achievement_id
      /\ \A id \in ItemsOf(earned_achievements') :
           RequiredItems(id) <= hist'.max_count
    ]_vars

\* two achievements, earned by a call with count 12 and a second such call,
\* are still held after a card was redeemed and the system was started again
C24_Witness ==
  /\ reloaded
  /\ hist.max_count = 12
  /\ Len(earned_achievements) = 2
  /\ Len(gift_cards) = 2
  /\ gift_cards[1].is_redeemed
  /\ rcall.op = "redeem_gift_card"

\* ---------------------------------------------------------------------------
\* Catching up on several thresholds

\* the achievements whose required_items a count of required_items of
\* achievement i reaches
UpTo(i) ==
  {j \in 1..Len(default_achievements) :
     default_achievements[j].required_items <= default_achievements[i].required_items}

\* those of them that are earned
EarnedUpTo(i) ==
  {j \in UpTo(i) : default_achievements[j].id \in ItemsOf(earned_achievements)}

Min(a, b) == IF a <= b THEN a ELSE b

\* C25: once check_achievements has been called k times with counts of at
\* least n, at least k of the achievements with required_items <= n are
\* earned, or all of them: every achievement that n reaches is earned after
\* at most as many such calls as there are achievements, also when n crosses
\* several thresholds at once. (n ranges over the thresholds.)
C25_CatchesUp ==
  \A i \in 1..Len(default_achievements) :
    Cardinality(EarnedUpTo(i)) >= Min(hist.calls[i], Cardinality(UpTo(i)))

\* the only two calls whose count reached a threshold came with a count
\* past two thresholds, and the two achievements are earned
C25_Witness ==
  /\ hist.calls[1] = 2
  /\ hist.calls[2] = 2
  /\ hist.max_count = 12
  /\ earned_achievements = <<"recycling_novice", "recycling_enthusiast">>

\* the progress get_progress_to_next_achievement returns for the tracker's count
Progress == get_progress_to_next_achievement(earned_achievements, recycled_plastics(items))

\* C26: in every state reachable through the app, the percentage that
\* get_progress_to_next_achievement returns for the tracker's recycled count
\* is between 0 and 100, and so is every percentage a page has shown
C26_PercentageInRange ==
  /\ Progress.percentage \in 0..100
  /\ \A i \in 1..Len(shown.progress) : shown.progress[i] \in 0..100

\* C26 happens: with ten items recycled and two achievements earned, the
\* Rewards page shows the progress towards the third, counted from the second
C26_Witness ==
  /\ earned_achievements = <<"recycling_novice", "recycling_enthusiast">>
  /\ recycled_plastics(items) = 10
  /\ shown.page = "Rewards"
  /\ shown.progress = <<Progress.percentage>>
  /\ Progress.next_milestone = 25

\* C27: when a Mark as Recycled press on My Items has earned an achievement
\* and no other achievement has been earned since, the next Rewards page put
\* on the screen finds just_earned_achievement still referring to it and
\* displays its gift card as newly earned
C27_StillNewOnRewards ==
  (shown.page = "Rewards" /\ shown.awaited # "None")
    => /\ shown.just_earned_achievement = shown.awaited
       /\ shown.awaited \in shown.is_new

\* no Rewards page of a session displays a gift card as newly earned
NeverShownAsNew == shown.is_new = {}

\* the calls of detect_plastic_items and mark_as_recycled that have completed
Completed ==
  {p \in Procs : /\ pc[p] = "done"
                 /\ frame[p].op \in {"receipt", "mark"}
                 /\ result[p].outcome = "ok"}

\* the storage file holds the list its, entry by entry
Holds(f, its) ==
  /\ f.state = "written"
  /\ Len(f.data) = Len(its)
  /\ \A i \in 1..Len(its) :
       /\ f.data[i].id = its[i].id
       /\ f.data[i].name = its[i].name
       /\ f.data[i].category = its[i].category
       /\ f.data[i].date = its[i].date
       /\ f.data[i].receipt_id = its[i].receipt_id
       /\ f.data[i].carbon_footprint = its[i].carbon_footprint
       /\ f.data[i].recycled = its[i].recycled

DetectAfterMark ==
  /\ \E p \in Completed : frame[p].op = "receipt" /\ result[p].items # <<>>
  /\ \E i \in 1..Len(items) : items[i].recycled

====
